---- MODULE Spec2Model ----
(***************************************************************************)
(* FaceTracker-AI: the centroid tracker (src/tracker.py) and the frame     *)
(* orchestrator (src/main.py, FaceTrackingSystem.process_frame) as a state *)
(* machine.                                                                *)
(*                                                                         *)
(* Conventions.                                                            *)
(*  - A python dict is a function; dicts keyed by track id are iterated in *)
(*    insertion order, which is ascending id order because ids are only    *)
(*    ever inserted in increasing order.                                   *)
(*  - rows and cols of the distance matrix are 1-based here (0-based in    *)
(*    numpy).                                                              *)
(*  - D holds SQUARED euclidean distances: centroids are integers, sqrt is *)
(*    strictly monotone on the integers involved, so every comparison of   *)
(*    the code (row minimum, argmin, argsort, > 50) is the same comparison *)
(*    on squares (> 50*50).                                                *)
(*  - None is the empty tuple <<>>; an identity label "FACE_0007" is the   *)
(*    tuple of its four digits <<0,0,0,7>>.                                *)
(***************************************************************************)
EXTENDS Integers, Sequences, FiniteSets, TLC

VARIABLES
    \* ---- FaceTracker (src/tracker.py) ----
    next_object_id,   \* self.next_object_id
    objects,          \* self.objects: id -> [centroid, bbox, face_id]
    disappeared,      \* self.disappeared: id -> consecutive misses
    face_id_map,      \* self.face_id_map: id -> identity
    \* ---- FaceTrackingSystem (src/main.py) ----
    frame_count,      \* self.frame_count
    tracked_entries,  \* self.tracked_entries
    tracked_exits,    \* self.tracked_exits
    next_face_id,     \* self.next_face_id
    known_embeddings, \* self.known_embeddings: ordered dict, a sequence of [id, emb]
    \* ---- FaceRecognizer (src/face_recognizer.py) ----
    similarity_threshold, \* self.similarity_threshold, in hundredths
    fm_embedding,     \* find_match called on its own: the embedding passed,
    fm_known,         \*   the known_embeddings passed,
    fm_result,        \*   and what it returned, as <<result>> (<<>> before the call)
    \* ---- Database (src/database.py): the two collections ----
    db_faces,         \* self.faces: the face_ids inserted by register_face
    db_events,        \* self.events: the <<face_id, type>> documents inserted, with counts
    \* ---- observation of the run (history of calls, no effect on the program) ----
    created,          \* the register calls in order: [id, after], after = the ids removed before it
    removed,          \* track ids deregister has removed
    missed,           \* id -> consecutive update calls that did not match the track
    empty_run,        \* number of consecutive update([]) calls just made
    run_start,        \* the ids active before the first call of that run
    aged_out,         \* ids that were active at the start of a completed run of > max_disappeared empty updates
    raised,           \* the exception the most recent call let escape ("none" if none)
    log_calls,        \* <<face_id, type>> -> number of log_event calls made
    assigned,         \* the <<track id, face_id>> pairs process_frame has passed to assign_face_id
    detector_called,  \* whether the most recent frame called detect_faces
    detected,         \* whether the most recent frame's detection list was non-empty
    attempted,        \* the track ids get_embedding was called for in the most recent frame
    retried,          \* those of them whose previous get_embedding call had returned None
    no_embedding      \* the active tracks whose latest get_embedding call returned None

tracker_vars == <<next_object_id, objects, disappeared, face_id_map>>
system_vars == <<frame_count, tracked_entries, tracked_exits, next_face_id, known_embeddings>>
db_vars == <<db_faces, db_events>>
history_vars == <<created, removed, missed, empty_run, run_start, aged_out, raised, log_calls,
                  assigned, detector_called, detected, attempted, retried, no_embedding>>
frame_vars == <<assigned, detector_called, detected, attempted, retried, no_embedding>>
recognizer_vars == <<similarity_threshold, fm_embedding, fm_known, fm_result>>
vars == <<tracker_vars, system_vars, db_vars, recognizer_vars, history_vars>>

---------------------------------------------------------------------------
(* Bounds of the model and constants of the program *)

\* FaceTracker(max_disappeared=...): the configured tolerance, modelled small
max_disappeared == 2

\* the gating threshold of update, in pixels
Gate == 50

\* tracks created in one run
MaxIds == 3

\* detections in one frame
MaxDets == 2

\* process_frame runs detection on every (skip_frames + 1)-th frame
skip_frames == 1

\* frames of one run
MaxFrames == 6

\* FaceRecognizer(similarity_threshold=0.6), in hundredths
similarity_threshold_pct == 60

\* entries of the known_embeddings passed to find_match called on its own
MaxKnown == 3

None == <<>>

---------------------------------------------------------------------------
(* Inputs: bounding boxes (x1, y1, x2, y2) of the detection source *)

\* centroids (0,0), (2,1), (30,40), (100,100): (30,40) is exactly 50 px from (0,0)
\* and less from (2,1); (100,100) is more than 50 px from the three others
Boxes == { <<0, 0, 1, 1>>, <<1, 0, 3, 2>>, <<29, 39, 31, 41>>, <<99, 99, 101, 101>> }

\* the boxes used where identities are in play: two places far apart
FewBoxes == { <<0, 0, 1, 1>>, <<99, 99, 101, 101>> }

ListsOver(boxes) == UNION { [1..n -> { [bbox |-> b] : b \in boxes }] : n \in 0..MaxDets }

DetLists == ListsOver(Boxes)

FewDetLists == ListsOver(FewBoxes)

\* the boxes used where the tracker's three operations are interleaved: two places
\* close to each other and one far away
ApiBoxes == { <<0, 0, 1, 1>>, <<1, 0, 3, 2>>, <<99, 99, 101, 101>> }

ApiDetLists == ListsOver(ApiBoxes)

FaceIds == { <<0, 0, 0, 1>> }

\* embeddings get_embedding can return: two directions at right angles (two people)
Embeddings == { <<1, 0>>, <<0, 1>> }

\* what get_all_embeddings can have loaded at startup: nothing, or one face whose
\* label is not the first of the FACE_%04d sequence
KnownAtStartup == { <<>>, << [face_id |-> <<0, 0, 0, 2>>, embedding |-> <<1, 0>>] >> }

\* FaceRecognizer.__init__ with the default threshold; find_match not called on its own
RecognizerInit ==
    /\ similarity_threshold = similarity_threshold_pct
    /\ fm_embedding = None
    /\ fm_known = <<>>
    /\ fm_result = <<>>

---------------------------------------------------------------------------
(* Helpers for dicts and ordered iteration *)

Drop(f, k) == [x \in DOMAIN f \ {k} |-> f[x]]

Put(f, k, v) == [x \in DOMAIN f \cup {k} |-> IF x = k THEN v ELSE f[x]]

MinOf(S) == CHOOSE x \in S : \A y \in S : x <= y

RECURSIVE Ascending(_)
Ascending(S) == IF S = {} THEN <<>> ELSE <<MinOf(S)>> \o Ascending(S \ {MinOf(S)})

Range(s) == { s[i] : i \in DOMAIN s }

---------------------------------------------------------------------------
(* FaceTracker *)

\* the tracker's fields, with the trace of what the operation being carried out did
\* to which track: "register", "match", "age" (counter + 1), "deregister"
TrackerState == [next_object_id |-> next_object_id, objects |-> objects,
                 disappeared |-> disappeared, face_id_map |-> face_id_map,
                 trace |-> <<>>]

\* FaceTracker.__init__
TrackerInit == [next_object_id |-> 0, objects |-> <<>>,
                disappeared |-> <<>>, face_id_map |-> <<>>, trace |-> <<>>]

\* (a variant of register that hands out the lowest id not in use)
RegisterLowestFree(t, centroid, bbox) ==
    LET id == MinOf({ i \in 0..t.next_object_id : i \notin DOMAIN t.objects })
    IN  [t EXCEPT !.objects = Put(t.objects, id,
                                  [centroid |-> centroid, bbox |-> bbox, face_id |-> None]),
                  !.disappeared = Put(t.disappeared, id, 0),
                  !.next_object_id = t.next_object_id + 1,
                  !.trace = Append(t.trace, [op |-> "register", id |-> id])]

\* (a variant of register that recycles the most recently freed id, if there is one)
RegisterRecycled(t, centroid, bbox) ==
    LET free == { i \in 0..t.next_object_id : i \notin DOMAIN t.objects }
        id == CHOOSE i \in free : \A j \in free : j <= i \/ j = t.next_object_id
    IN  [t EXCEPT !.objects = Put(t.objects, id,
                                  [centroid |-> centroid, bbox |-> bbox, face_id |-> None]),
                  !.disappeared = Put(t.disappeared, id, 0),
                  !.next_object_id = t.next_object_id + 1,
                  !.trace = Append(t.trace, [op |-> "register", id |-> id])]

\* register: the new track takes next_object_id, counter 0, no identity
Register(t, centroid, bbox) ==
    [t EXCEPT !.objects = Put(t.objects, t.next_object_id,
                              [centroid |-> centroid, bbox |-> bbox, face_id |-> None]),
              !.disappeared = Put(t.disappeared, t.next_object_id, 0),
              !.next_object_id = t.next_object_id + 1,
              !.trace = Append(t.trace, [op |-> "register", id |-> t.next_object_id])]

\* (a variant of deregister that leaves the counter of the removed track behind)
DeregisterKeepCounter(t, object_id) ==
    [t EXCEPT !.objects = Drop(t.objects, object_id),
              !.face_id_map = IF object_id \in DOMAIN t.face_id_map
                              THEN Drop(t.face_id_map, object_id)
                              ELSE t.face_id_map,
              !.trace = Append(t.trace, [op |-> "deregister", id |-> object_id])]

\* deregister: del objects[id], del disappeared[id], and face_id_map[id] if present
Deregister(t, object_id) ==
    [t EXCEPT !.objects = Drop(t.objects, object_id),
              !.disappeared = Drop(t.disappeared, object_id),
              !.face_id_map = IF object_id \in DOMAIN t.face_id_map
                              THEN Drop(t.face_id_map, object_id)
                              ELSE t.face_id_map,
              !.trace = Append(t.trace, [op |-> "deregister", id |-> object_id])]

\* (a variant of the removal test that removes a track on its first miss)
ExpiredOnFirstMiss(count) == count >= 1

\* (variants of the removal test: one update late, one update early)
ExpiredLate(count) == count > max_disappeared + 1

ExpiredEarly(count) == count >= max_disappeared

\* the removal test of both ageing loops: disappeared[id] > max_disappeared
Expired(count) == count > max_disappeared

\* if self.disappeared[object_id] > self.max_disappeared: self.deregister(object_id)
DeregisterIfExpired(t, object_id) ==
    IF Expired(t.disappeared[object_id]) THEN Deregister(t, object_id) ELSE t

\* disappeared[id] += 1, then deregister when the counter exceeds max_disappeared
AgeOne(t, object_id) ==
    DeregisterIfExpired([t EXCEPT !.disappeared[object_id] = @ + 1,
                                  !.trace = Append(t.trace, [op |-> "age", id |-> object_id])],
                        object_id)

RECURSIVE AgeAll(_, _)
AgeAll(t, ids) ==
    IF ids = <<>> THEN t ELSE AgeAll(AgeOne(t, Head(ids)), Tail(ids))

\* cx = int((x1 + x2) / 2), cy = int((y1 + y2) / 2), coordinates non-negative
Centroid(bbox) == << (bbox[1] + bbox[3]) \div 2, (bbox[2] + bbox[4]) \div 2 >>

SqDist(a, b) == (a[1] - b[1]) * (a[1] - b[1]) + (a[2] - b[2]) * (a[2] - b[2])

\* (a variant of the gate that lets every distance through)
NeverTooFar(d2) == FALSE

\* D[row, col] > 50
TooFar(d2) == d2 > Gate * Gate

InputCentroids(detections) == [i \in 1..Len(detections) |-> Centroid(detections[i].bbox)]

InputBboxes(detections) == [i \in 1..Len(detections) |-> detections[i].bbox]

ObjectIds(t) == Ascending(DOMAIN t.objects)

\* D = dist.cdist(object_centroids, input_centroids), squared
DistMatrix(t, ids, input_centroids) ==
    [r \in 1..Len(ids) |->
        [c \in 1..Len(input_centroids) |->
            SqDist(t.objects[ids[r]].centroid, input_centroids[c])]]

\* D.min(axis=1): each row's minimum
RowMins(D) == [r \in DOMAIN D |-> MinOf({ D[r][c] : c \in DOMAIN D[r] })]

\* (a variant of argmin that takes the last column holding the row's minimum)
ArgMinsLast(D, mins) ==
    [r \in DOMAIN D |->
        CHOOSE c \in DOMAIN D[r] :
            /\ D[r][c] = mins[r]
            /\ \A c2 \in DOMAIN D[r] : D[r][c2] = mins[r] => c2 <= c]

\* D.argmin(axis=1): for each row, the first column holding the row's minimum
ArgMins(D, mins) == [r \in DOMAIN D |-> MinOf({ c \in DOMAIN D[r] : D[r][c] = mins[r] })]

\* v.argsort(): indices by ascending value; equal values keep index order (numpy
\* sorts arrays of this size by insertion, which is stable)
RECURSIVE ArgSortFrom(_, _)
ArgSortFrom(v, left) ==
    IF left = {} THEN <<>>
    ELSE LET r == CHOOSE x \in left : \A y \in left :
                      \/ v[x] < v[y]
                      \/ v[x] = v[y] /\ x <= y
         IN  <<r>> \o ArgSortFrom(v, left \ {r})

\* (a variant of the ordering that leaves the rows in index order)
ArgSortNone(v) == Ascending(DOMAIN v)

ArgSort(v) == ArgSortFrom(v, DOMAIN v)

\* (a variant of the matched-pair update that replaces the whole record)
ApplyMatchAsNew(t, object_id, centroid, bbox) ==
    [t EXCEPT !.objects[object_id] = [centroid |-> centroid, bbox |-> bbox, face_id |-> None],
              !.disappeared[object_id] = 0,
              !.trace = Append(t.trace, [op |-> "match", id |-> object_id])]

\* a matched pair: the track takes the detection's centroid and bbox, counter 0
ApplyMatch(t, object_id, centroid, bbox) ==
    [t EXCEPT !.objects[object_id].centroid = centroid,
              !.objects[object_id].bbox = bbox,
              !.disappeared[object_id] = 0,
              !.trace = Append(t.trace, [op |-> "match", id |-> object_id])]

\* the loop over zip(rows, cols); m carries the tracker, used_rows and used_cols
RECURSIVE MatchLoop(_, _, _, _, _, _, _)
MatchLoop(D, rows, cols, ids, input_centroids, input_bboxes, m) ==
    IF rows = <<>> THEN m
    ELSE IF Head(rows) \in m.used_rows \/ cols[Head(rows)] \in m.used_cols
    THEN MatchLoop(D, Tail(rows), cols, ids, input_centroids, input_bboxes, m)
    ELSE IF TooFar(D[Head(rows)][cols[Head(rows)]])
    THEN MatchLoop(D, Tail(rows), cols, ids, input_centroids, input_bboxes, m)
    ELSE MatchLoop(D, Tail(rows), cols, ids, input_centroids, input_bboxes,
                   [t |-> ApplyMatch(m.t, ids[Head(rows)],
                                     input_centroids[cols[Head(rows)]],
                                     input_bboxes[cols[Head(rows)]]),
                    used_rows |-> m.used_rows \cup {Head(rows)},
                    used_cols |-> m.used_cols \cup {cols[Head(rows)]}])

\* (a variant of the register loop that stops after the first detection)
RegisterFirstOnly(t, input_centroids, input_bboxes, cols) ==
    IF cols = <<>> THEN t
    ELSE Register(t, input_centroids[Head(cols)], input_bboxes[Head(cols)])

RECURSIVE RegisterAll(_, _, _, _)
RegisterAll(t, input_centroids, input_bboxes, cols) ==
    IF cols = <<>> THEN t
    ELSE RegisterAll(Register(t, input_centroids[Head(cols)], input_bboxes[Head(cols)]),
                     input_centroids, input_bboxes, Tail(cols))

\* the rows in ascending order of their minimum, each with its own argmin column
MatchByRowMinimum(t, D, mins, ids, input_centroids, input_bboxes) ==
    MatchLoop(D, ArgSort(mins), ArgMins(D, mins), ids, input_centroids, input_bboxes,
              [t |-> t, used_rows |-> {}, used_cols |-> {}])

\* the two loops after the matching: unused rows age, unused columns are registered
AfterMatching(m, ids, input_centroids, input_bboxes) ==
    RegisterAll(AgeAll(m.t, [i \in 1..Cardinality((1..Len(ids)) \ m.used_rows) |->
                               ids[Ascending((1..Len(ids)) \ m.used_rows)[i]]]),
                input_centroids, input_bboxes,
                Ascending((1..Len(input_centroids)) \ m.used_cols))

AssociateWith(t, D, ids, input_centroids, input_bboxes) ==
    AfterMatching(MatchByRowMinimum(t, D, RowMins(D), ids, input_centroids, input_bboxes),
                  ids, input_centroids, input_bboxes)

AssociateIds(t, ids, input_centroids, input_bboxes) ==
    AssociateWith(t, DistMatrix(t, ids, input_centroids), ids, input_centroids, input_bboxes)

\* the else branch of update: tracks exist and the detection list is not empty
Associate(t, detections) ==
    AssociateIds(t, ObjectIds(t), InputCentroids(detections), InputBboxes(detections))

\* FaceTracker.update: the tracker after the call (the returned mapping is its objects)
TrackerUpdate(t, detections) ==
    IF Len(detections) = 0
    THEN AgeAll(t, Ascending(DOMAIN t.disappeared))
    ELSE IF DOMAIN t.objects = {}
    THEN RegisterAll(t, InputCentroids(detections), InputBboxes(detections),
                     Ascending(1..Len(detections)))
    ELSE Associate(t, detections)

\* FaceTracker.get_face_id: face_id_map.get(object_id, None)
GetFaceIdOf(t, object_id) ==
    IF object_id \in DOMAIN t.face_id_map THEN t.face_id_map[object_id] ELSE None

\* FaceTracker.assign_face_id: face_id_map[object_id] is written first, then
\* objects[object_id]['face_id'], which raises KeyError for an id that is not active
TrackerAssignFaceId(t, object_id, face_id) ==
    LET t1 == [t EXCEPT !.face_id_map = Put(t.face_id_map, object_id, face_id)]
    IN  IF object_id \in DOMAIN t1.objects
        THEN [t |-> [t1 EXCEPT !.objects[object_id].face_id = face_id], raised |-> "none"]
        ELSE [t |-> t1, raised |-> "KeyError"]

---------------------------------------------------------------------------
(* What the run records about the calls made *)

TraceIds(trace, op) ==
    LET idx == Ascending({ i \in DOMAIN trace : trace[i].op = op })
    IN  [k \in 1..Len(idx) |-> trace[idx[k]].id]

\* the history after update(detections) took tracker t to t2
HistoryAfterUpdate(t, detections, t2) ==
    LET regs == Ascending({ i \in DOMAIN t2.trace : t2.trace[i].op = "register" })
        goneBefore(i) == { t2.trace[k].id : k \in { j \in 1..i : t2.trace[j].op = "deregister" } }
        new == TraceIds(t2.trace, "register")
        gone == Range(TraceIds(t2.trace, "deregister"))
        aged == Range(TraceIds(t2.trace, "age"))
        matched == Range(TraceIds(t2.trace, "match"))
        run == IF Len(detections) = 0
               THEN (IF empty_run > max_disappeared THEN empty_run ELSE empty_run + 1)
               ELSE 0
        start == IF Len(detections) = 0
                 THEN (IF empty_run = 0 THEN DOMAIN t.objects ELSE run_start)
                 ELSE {}
    IN  /\ created' = created \o [k \in 1..Len(regs) |->
                                     [id |-> t2.trace[regs[k]].id,
                                      after |-> removed \cup goneBefore(regs[k])]]
        /\ removed' = removed \cup gone
        /\ missed' = [id \in DOMAIN missed \cup Range(new) |->
                         IF id \in Range(new) THEN 0
                         ELSE IF id \in aged THEN missed[id] + 1
                         ELSE IF id \in matched THEN 0
                         ELSE missed[id]]
        /\ empty_run' = run
        /\ run_start' = start
        /\ aged_out' = IF run > max_disappeared THEN aged_out \cup start ELSE aged_out
        /\ raised' = "none"

SetTracker(t) ==
    /\ next_object_id' = t.next_object_id
    /\ objects' = t.objects
    /\ disappeared' = t.disappeared
    /\ face_id_map' = t.face_id_map

---------------------------------------------------------------------------
(* The tracker on its own: any sequence of calls of its three operations *)

Init ==
    /\ next_object_id = TrackerInit.next_object_id
    /\ objects = TrackerInit.objects
    /\ disappeared = TrackerInit.disappeared
    /\ face_id_map = TrackerInit.face_id_map
    /\ frame_count = 0
    /\ tracked_entries = {}
    /\ tracked_exits = {}
    /\ next_face_id = 1
    /\ known_embeddings = <<>>
    /\ db_faces = {}
    /\ db_events = <<>>
    /\ created = <<>>
    /\ removed = {}
    /\ missed = <<>>
    /\ empty_run = 0
    /\ run_start = {}
    /\ aged_out = {}
    /\ raised = "none"
    /\ log_calls = <<>>
    /\ assigned = {}
    /\ detector_called = FALSE
    /\ RecognizerInit
    /\ detected = FALSE
    /\ attempted = {}
    /\ retried = {}
    /\ no_embedding = {}

Update(detections) ==
    \E t2 \in {TrackerUpdate(TrackerState, detections)} :
        /\ t2.next_object_id <= MaxIds
        /\ SetTracker(t2)
        /\ HistoryAfterUpdate(TrackerState, detections, t2)
        /\ UNCHANGED <<system_vars, db_vars, recognizer_vars, log_calls, frame_vars>>

AssignFaceId(object_id, face_id) ==
    \E r \in {TrackerAssignFaceId(TrackerState, object_id, face_id)} :
        /\ SetTracker(r.t)
        /\ raised' = r.raised
        /\ UNCHANGED <<system_vars, db_vars, recognizer_vars, created, removed, missed,
                       empty_run, run_start, aged_out, log_calls, frame_vars>>

GetFaceId(object_id) ==
    /\ GetFaceIdOf(TrackerState, object_id) \in FaceIds \cup {None}
    /\ raised' = "none"
    /\ UNCHANGED <<tracker_vars, system_vars, db_vars, recognizer_vars, created, removed,
                   missed, empty_run, run_start, aged_out, log_calls, frame_vars>>

\* update alone, over the full set of boxes
UpdateNext == \E detections \in DetLists : Update(detections)

UpdateSpec == Init /\ [][UpdateNext]_vars

Next ==
    \/ \E detections \in ApiDetLists : Update(detections)
    \/ \E object_id \in 0..(MaxIds - 1), face_id \in FaceIds : AssignFaceId(object_id, face_id)
    \/ \E object_id \in 0..(MaxIds - 1) : GetFaceId(object_id)

Spec == Init /\ [][Next]_vars

---------------------------------------------------------------------------
(* FaceRecognizer.find_match and the identity labels *)

Dot(a, b) == a[1] * b[1] + a[2] * b[2]

\* compare_embeddings: the cosine dot(a,b) / (|a| |b|), kept as the pair
\* [num, den2] standing for num / sqrt(den2)
Similarity(a, b) == [num |-> Dot(a, b), den2 |-> Dot(a, a) * Dot(b, b)]

\* x > y for two such pairs
SimGreater(x, y) ==
    IF x.num >= 0 /\ y.num >= 0 THEN x.num * x.num * y.den2 > y.num * y.num * x.den2
    ELSE IF x.num >= 0 THEN TRUE
    ELSE IF y.num >= 0 THEN FALSE
    ELSE x.num * x.num * y.den2 < y.num * y.num * x.den2

\* similarity > self.similarity_threshold
AboveThreshold(x) ==
    SimGreater(x, [num |-> similarity_threshold, den2 |-> 100 * 100])

\* the loop of find_match over known_embeddings.items(), in dict order
RECURSIVE FindMatchLoop(_, _, _)
FindMatchLoop(embedding, known, best) ==
    IF known = <<>> THEN best
    ELSE LET similarity == Similarity(embedding, Head(known).embedding)
         IN  IF SimGreater(similarity, best.similarity) /\ AboveThreshold(similarity)
             THEN FindMatchLoop(embedding, Tail(known),
                                [face_id |-> Head(known).face_id, similarity |-> similarity])
             ELSE FindMatchLoop(embedding, Tail(known), best)

\* find_match: (best_match_id, best_similarity), starting from (None, 0.0)
FindMatch(embedding, known) ==
    IF embedding = None THEN [face_id |-> None, similarity |-> [num |-> 0, den2 |-> 1]]
    ELSE FindMatchLoop(embedding, known,
                       [face_id |-> None, similarity |-> [num |-> 0, den2 |-> 1]])

\* f"FACE_{n:04d}" for n < 10000: the four digits, zero padded
FaceLabel(n) == << (n \div 1000) % 10, (n \div 100) % 10, (n \div 10) % 10, n % 10 >>

\* known_embeddings[face_id] = embedding: an existing key keeps its place
DictSet(known, face_id, embedding) ==
    IF \E i \in DOMAIN known : known[i].face_id = face_id
    THEN [i \in DOMAIN known |-> IF known[i].face_id = face_id
                                 THEN [face_id |-> face_id, embedding |-> embedding]
                                 ELSE known[i]]
    ELSE Append(known, [face_id |-> face_id, embedding |-> embedding])

---------------------------------------------------------------------------
(* Database: insert_one either succeeds or raises, and the wrapper returns True / False *)

Bump(counts, key) ==
    IF key \in DOMAIN counts THEN [counts EXCEPT ![key] = @ + 1] ELSE Put(counts, key, 1)

Count(counts, key) == IF key \in DOMAIN counts THEN counts[key] ELSE 0

\* Database.log_event, called by process_frame; ok is whether insert_one succeeded
LogEvent(s, face_id, event_type, ok) ==
    [s EXCEPT !.log_calls = Bump(s.log_calls, <<face_id, event_type>>),
              !.db_events = IF ok THEN Bump(s.db_events, <<face_id, event_type>>)
                            ELSE s.db_events]

\* Database.register_face
RegisterFace(s, face_id, ok) ==
    [s EXCEPT !.db_faces = IF ok THEN s.db_faces \cup {face_id} ELSE s.db_faces]

---------------------------------------------------------------------------
(* FaceTrackingSystem.process_frame *)

\* the state process_frame works on
SystemState == [t |-> TrackerState,
                tracked_entries |-> tracked_entries, tracked_exits |-> tracked_exits,
                next_face_id |-> next_face_id, known_embeddings |-> known_embeddings,
                db_faces |-> db_faces, db_events |-> db_events, log_calls |-> log_calls,
                assigned |-> assigned, attempted |-> {}, no_embedding |-> no_embedding]

\* (a variant of the entry guard that logs on every resolution)
AlwaysLogEntry(face_id, entries) == TRUE

\* (a variant of the entry guard that never logs)
NeverLogEntry(face_id, entries) == FALSE

\* if face_id not in self.tracked_entries
ShouldLogEntry(face_id, entries) == face_id \notin entries

\* (a variant of the entered mark that forgets the earlier identities)
MarkOnlyLatest(entries, face_id) == {face_id}

\* self.tracked_entries.add(face_id)
MarkEntered(entries, face_id) == entries \cup {face_id}

\* the entry block: log_event's result is not looked at, the mark is always set
LogEntry(s, face_id, log_ok) ==
    IF ShouldLogEntry(face_id, s.tracked_entries)
    THEN [LogEvent(s, face_id, "entry", log_ok)
             EXCEPT !.tracked_entries = MarkEntered(s.tracked_entries, face_id)]
    ELSE s

\* the identity for an embedding: the match, or a newly minted and registered label
\* (register_face's result is not looked at)
IdentityFor(s, embedding, register_ok, matched_id, label) ==
    IF matched_id # None
    THEN [s |-> s, face_id |-> matched_id]
    ELSE [s |-> [RegisterFace(s, label, register_ok)
                    EXCEPT !.next_face_id = s.next_face_id + 1,
                           !.known_embeddings = DictSet(s.known_embeddings, label, embedding)],
          face_id |-> label]

ResolveIdentity(s, embedding, register_ok) ==
    IdentityFor(s, embedding, register_ok,
                FindMatch(embedding, s.known_embeddings).face_id, FaceLabel(s.next_face_id))

\* self.tracker.assign_face_id(obj_id, face_id), then the entry block
AssignAndLog(r, obj_id, log_ok) ==
    LogEntry([r.s EXCEPT !.t = TrackerAssignFaceId(r.s.t, obj_id, r.face_id).t,
                         !.assigned = r.s.assigned \cup {<<obj_id, r.face_id>>},
                         !.no_embedding = r.s.no_embedding \ {obj_id}],
             r.face_id, log_ok)

\* (a variant of the resolution guard that gives a track up after a failed attempt)
NeedsResolutionOnce(s, obj_id, has_detections) ==
    /\ s.t.objects[obj_id].face_id = None
    /\ has_detections
    /\ obj_id \notin s.no_embedding

\* (a variant of the resolution guard that does not look at the track's identity)
NeedsResolutionAlways(s, obj_id, has_detections) == has_detections

\* if face_id is None and len(detections) > 0
NeedsResolution(s, obj_id, has_detections) ==
    s.t.objects[obj_id].face_id = None /\ has_detections

\* one iteration of the loop over tracked_objects.items()
ProcessTrack(s, obj_id, has_detections, embedding, register_ok, log_ok) ==
    IF NeedsResolution(s, obj_id, has_detections)
    THEN IF embedding # None
         THEN AssignAndLog(ResolveIdentity([s EXCEPT !.attempted = s.attempted \cup {obj_id}],
                                           embedding, register_ok),
                           obj_id, log_ok)
         ELSE [s EXCEPT !.attempted = s.attempted \cup {obj_id},
                        !.no_embedding = s.no_embedding \cup {obj_id}]
    ELSE s

RECURSIVE ProcessTracks(_, _, _, _, _, _)
ProcessTracks(s, ids, has_detections, embeddings, register_ok, log_ok) ==
    IF ids = <<>> THEN s
    ELSE ProcessTracks(ProcessTrack(s, Head(ids), has_detections,
                                    IF Head(ids) \in DOMAIN embeddings
                                    THEN embeddings[Head(ids)] ELSE None,
                                    register_ok, log_ok),
                       Tail(ids), has_detections, embeddings, register_ok, log_ok)

\* current_face_ids: the identities of the tracked objects (None is falsy)
CurrentFaceIds(t) ==
    { t.objects[id].face_id : id \in { i \in DOMAIN t.objects : t.objects[i].face_id # None } }

\* exited_faces = tracked_entries - current_face_ids - tracked_exits
ExitedFaces(s) == (s.tracked_entries \ CurrentFaceIds(s.t)) \ s.tracked_exits

\* the inner scan: an exit is logged for face_id only if a tracked object carries it
LogExit(s, face_id, log_ok) ==
    IF \E id \in DOMAIN s.t.objects : s.t.objects[id].face_id = face_id
    THEN [LogEvent(s, face_id, "exit", log_ok)
             EXCEPT !.tracked_exits = s.tracked_exits \cup {face_id}]
    ELSE s

RECURSIVE LogExits(_, _, _)
LogExits(s, faces, log_ok) ==
    IF faces = {} THEN s
    ELSE LET f == CHOOSE x \in faces : TRUE
         IN  LogExits(LogExit(s, f, log_ok), faces \ {f}, log_ok)

\* (a variant of the frame test that counts frames from 0)
IsDetectionFrameFromZero(count) == (count - 1) % (skip_frames + 1) = 0

\* frame_count % (skip_frames + 1) == 0, for the frame_count already incremented
IsDetectionFrame(count) == count % (skip_frames + 1) = 0

\* the exit check: exited_faces, then the scan for each of them
CheckExits(s, log_ok) == LogExits(s, ExitedFaces(s), log_ok)

\* process_frame after tracker.update: the resolution loop, then the exit check
AfterUpdate(s, has_detections, embeddings, register_ok, log_ok) ==
    CheckExits(ProcessTracks(s, Ascending(DOMAIN s.t.objects), has_detections,
                             embeddings, register_ok, log_ok),
               log_ok)

\* the tracks the resolution loop will call get_embedding for
NeedEmbedding(t, detections) ==
    IF Len(detections) = 0 THEN {}
    ELSE { id \in DOMAIN t.objects : t.objects[id].face_id = None }

\* One call of process_frame. detections is what detect_faces returns (used on a
\* detection frame only) and t1 the tracker after tracker.update(detections);
\* embeddings gives get_embedding's result per track; register_ok and log_ok say
\* whether the database inserts of this frame succeed.
ProcessFrame(detections, t1, embeddings, register_ok, log_ok) ==
    \E s2 \in {AfterUpdate([SystemState EXCEPT !.t = t1,
                                               !.no_embedding = no_embedding \cap DOMAIN t1.objects],
                            Len(detections) > 0, embeddings, register_ok, log_ok)} :
        /\ frame_count' = frame_count + 1
        /\ SetTracker(s2.t)
        /\ HistoryAfterUpdate(TrackerState, detections, t1)
        /\ tracked_entries' = s2.tracked_entries
        /\ tracked_exits' = s2.tracked_exits
        /\ next_face_id' = s2.next_face_id
        /\ known_embeddings' = s2.known_embeddings
        /\ db_faces' = s2.db_faces
        /\ db_events' = s2.db_events
        /\ log_calls' = s2.log_calls
        /\ assigned' = s2.assigned
        /\ detected' = (Len(detections) > 0)
        /\ attempted' = s2.attempted
        /\ retried' = s2.attempted \cap no_embedding
        /\ no_embedding' = s2.no_embedding
        /\ UNCHANGED recognizer_vars

\* FaceTrackingSystem.__init__: the tracker is new, known_embeddings is what the
\* database holds, next_face_id = len(known_embeddings) + 1
SystemInit ==
    /\ next_object_id = TrackerInit.next_object_id
    /\ objects = TrackerInit.objects
    /\ disappeared = TrackerInit.disappeared
    /\ face_id_map = TrackerInit.face_id_map
    /\ frame_count = 0
    /\ tracked_entries = {}
    /\ tracked_exits = {}
    /\ known_embeddings \in KnownAtStartup
    /\ next_face_id = Len(known_embeddings) + 1
    /\ db_faces = { known_embeddings[i].face_id : i \in DOMAIN known_embeddings }
    /\ db_events = <<>>
    /\ created = <<>>
    /\ removed = {}
    /\ missed = <<>>
    /\ empty_run = 0
    /\ run_start = {}
    /\ aged_out = {}
    /\ raised = "none"
    /\ log_calls = <<>>
    /\ assigned = {}
    /\ detector_called = FALSE
    /\ RecognizerInit
    /\ detected = FALSE
    /\ attempted = {}
    /\ retried = {}
    /\ no_embedding = {}

\* a frame on which detection is skipped
SkippedFrame ==
    /\ frame_count < MaxFrames
    /\ ~IsDetectionFrame(frame_count + 1)
    /\ detector_called' = FALSE
    /\ \E t1 \in {TrackerUpdate(TrackerState, <<>>)}, register_ok \in BOOLEAN, log_ok \in BOOLEAN :
           ProcessFrame(<<>>, t1, <<>>, register_ok, log_ok)

\* a frame on which detect_faces runs
DetectionFrame ==
    /\ frame_count < MaxFrames
    /\ IsDetectionFrame(frame_count + 1)
    /\ detector_called' = TRUE
    /\ \E detections \in FewDetLists :
           \E t1 \in {TrackerUpdate(TrackerState, detections)} :
               /\ t1.next_object_id <= MaxIds
               /\ \E embeddings \in [NeedEmbedding(t1, detections) -> Embeddings \cup {None}],
                     register_ok \in BOOLEAN, log_ok \in BOOLEAN :
                       ProcessFrame(detections, t1, embeddings, register_ok, log_ok)

SystemNext == SkippedFrame \/ DetectionFrame

SystemSpec == SystemInit /\ [][SystemNext]_vars

---------------------------------------------------------------------------
(* FaceRecognizer.find_match on its own: one call, for the inputs drawn at the start *)

\* thresholds a FaceRecognizer can be constructed with, in hundredths: the default
\* 0.6, 0 and a negative one
Thresholds == { similarity_threshold_pct, 0, 0 - 50 }

\* embeddings whose cosine to (1,0) is 1, 0.8, 0.6, 0, -0.6 and -1
MatchEmbeddings == { <<1, 0>>, <<4, 3>>, <<3, 4>>, <<0, 1>>, <<0 - 3, 4>>, <<0 - 1, 0>> }

\* dicts of up to MaxKnown entries with the keys FACE_0001, FACE_0002, ... in order
KnownDicts ==
    UNION { { [i \in 1..n |-> [face_id |-> FaceLabel(i), embedding |-> e[i]]] :
                e \in [1..n -> MatchEmbeddings] } : n \in 0..MaxKnown }

MatchInit ==
    /\ next_object_id = TrackerInit.next_object_id
    /\ objects = TrackerInit.objects
    /\ disappeared = TrackerInit.disappeared
    /\ face_id_map = TrackerInit.face_id_map
    /\ frame_count = 0
    /\ tracked_entries = {}
    /\ tracked_exits = {}
    /\ next_face_id = 1
    /\ known_embeddings = <<>>
    /\ db_faces = {}
    /\ db_events = <<>>
    /\ created = <<>>
    /\ removed = {}
    /\ missed = <<>>
    /\ empty_run = 0
    /\ run_start = {}
    /\ aged_out = {}
    /\ raised = "none"
    /\ log_calls = <<>>
    /\ assigned = {}
    /\ detector_called = FALSE
    /\ detected = FALSE
    /\ attempted = {}
    /\ retried = {}
    /\ no_embedding = {}
    /\ similarity_threshold \in Thresholds
    /\ fm_embedding \in { <<1, 0>>, <<0, 1>> }
    /\ fm_known \in KnownDicts
    /\ fm_result = <<>>

\* matched_id, similarity = recognizer.find_match(embedding, known_embeddings)
FindMatchCall ==
    /\ fm_result = <<>>
    /\ fm_result' = <<FindMatch(fm_embedding, fm_known)>>
    /\ UNCHANGED <<tracker_vars, system_vars, db_vars, history_vars,
                   similarity_threshold, fm_embedding, fm_known>>

MatchNext == FindMatchCall

MatchSpec == MatchInit /\ [][MatchNext]_vars

---------------------------------------------------------------------------
(* Properties of the tracker *)

\* C1: over any sequence of update calls, the ids register hands out are strictly
\* increasing in creation order, and no track is ever given an id that had been
\* removed from the active set before it was created; a removed id is not active.
C1_IdsIncreasingNeverReused ==
    /\ \A i, j \in DOMAIN created : i < j => created[i].id < created[j].id
    /\ \A i \in DOMAIN created : created[i].id \notin created[i].after
    /\ \A id \in removed : id \notin DOMAIN objects

\* a track was created after another one had been removed, and is active
C1_Witness ==
    \E i \in DOMAIN created : created[i].after # {} /\ created[i].id \in DOMAIN objects

\* C7 (as the specification states it): assign_face_id with an id that is not
\* active raises and changes nothing: tracks, counters and the id-to-identity map
\* are as before the call.
C7_AssignUnknownIsNoOp ==
    [][raised' = "KeyError" =>
          /\ objects' = objects
          /\ disappeared' = disappeared
          /\ face_id_map' = face_id_map]_vars

\* C13 (as the specification states it): after any sequence of update and
\* assign_face_id calls, get_face_id returns for every active track the identity in
\* the track's record (None if it has none) and None for every id that is not an
\* active track.
C13_GetFaceIdReturnsStoredIdentity ==
    \A object_id \in 0..(MaxIds - 1) :
        GetFaceIdOf(TrackerState, object_id) =
            IF object_id \in DOMAIN objects THEN objects[object_id].face_id ELSE None

\* C8: once update([]) has been called more than max_disappeared times in a row,
\* every track that was active before the first of those calls is gone, and no
\* track that aged out this way is in the mapping after any later update.
C8_EmptyRunRemovesAll ==
    /\ empty_run > max_disappeared => run_start \cap DOMAIN objects = {}
    /\ aged_out \cap DOMAIN objects = {}

\* tracks have aged out in a run of empty updates, and a later non-empty update
\* has created tracks
C8_Witness ==
    /\ aged_out # {}
    /\ empty_run = 0
    /\ DOMAIN objects # {}

\* C9: a track is in the returned mapping exactly while its number of consecutive
\* unmatched updates is at most max_disappeared, its counter being that number
\* (1, 2, ..., max_disappeared); the update that makes it max_disappeared + 1
\* removes it.
C9_RemovedAtMaxPlusOne ==
    \A id \in DOMAIN missed :
        /\ id \in DOMAIN objects <=> missed[id] <= max_disappeared
        /\ id \in DOMAIN objects => disappeared[id] = missed[id]
        /\ id \notin DOMAIN objects => missed[id] = max_disappeared + 1

\* one track has just been removed by its (max_disappeared+1)-th unmatched update
\* while another has reached max_disappeared misses and is still returned
C9_Witness ==
    /\ \E id \in DOMAIN missed : id \notin DOMAIN objects /\ missed[id] = max_disappeared + 1
    /\ \E id \in DOMAIN objects : disappeared[id] = max_disappeared

\* the detections of a list that are more than Gate px from every active track
FarCols(t, detections) ==
    { c \in 1..Len(detections) :
        \A id \in DOMAIN t.objects :
            SqDist(t.objects[id].centroid, Centroid(detections[c].bbox)) > Gate * Gate }

\* what C10 says of update(detections) taking tracker t to t2
FarBecomeNew(t, detections, t2) ==
    \A c \in FarCols(t, detections) :
        LET bbox == detections[c].bbox
            same == { k \in FarCols(t, detections) : detections[k].bbox = bbox }
            fresh == { id \in DOMAIN t2.objects :
                         /\ id >= t.next_object_id
                         /\ id \notin DOMAIN t.objects
                         /\ t2.objects[id] = [centroid |-> Centroid(bbox), bbox |-> bbox,
                                              face_id |-> None]
                         /\ t2.disappeared[id] = 0 }
        IN  /\ Cardinality(fresh) = Cardinality(same)
            /\ \A id \in DOMAIN t.objects \cap DOMAIN t2.objects :
                   /\ t2.objects[id].bbox # bbox
                   /\ t2.objects[id].centroid # Centroid(bbox)

\* C10: in every reachable tracker state with at least one active track and for
\* every detection list, a detection more than 50 px from every active track
\* becomes a new track (fresh id, counter 0, no identity), one per such detection,
\* and no existing track takes its centroid or bounding box.
C10_FarDetectionBecomesNewTrack ==
    DOMAIN objects # {} =>
        \A detections \in DetLists :
            FarBecomeNew(TrackerState, detections, TrackerUpdate(TrackerState, detections))

\* an update that can be taken from here has a detection within 50 px of one track
\* (which is matched) and a detection far from all tracks (which becomes a track)
C10_Witness ==
    \E detections \in DetLists :
        LET t2 == TrackerUpdate(TrackerState, detections)
        IN  /\ DOMAIN objects # {}
            /\ t2.next_object_id <= MaxIds
            /\ FarCols(TrackerState, detections) # {}
            /\ FarCols(TrackerState, detections) # 1..Len(detections)
            /\ \E i \in DOMAIN t2.trace : t2.trace[i].op = "match"
            /\ \E i \in DOMAIN t2.trace : t2.trace[i].op = "register"
            /\ FarBecomeNew(TrackerState, detections, t2)

\* the squared distance from track id of t to its nearest detection
MinDist(t, detections, id) ==
    MinOf({ SqDist(t.objects[id].centroid, Centroid(detections[c].bbox)) :
              c \in 1..Len(detections) })

\* the nearest detection of track id (the first of them in the list)
Nearest(t, detections, id) ==
    MinOf({ c \in 1..Len(detections) :
              SqDist(t.objects[id].centroid, Centroid(detections[c].bbox))
                  = MinDist(t, detections, id) })

\* the tracks in the order they are visited: ascending minimum distance, tracks at
\* the same distance in id order
RECURSIVE VisitOrder(_, _, _)
VisitOrder(t, detections, left) ==
    IF left = {} THEN <<>>
    ELSE LET first == CHOOSE a \in left : \A b \in left :
                          \/ MinDist(t, detections, a) < MinDist(t, detections, b)
                          \/ /\ MinDist(t, detections, a) = MinDist(t, detections, b)
                             /\ a <= b
         IN  <<first>> \o VisitOrder(t, detections, left \ {first})

\* the visited tracks that are matched, in visiting order: those at most Gate px
\* from their nearest detection when no track matched before them consumed it
RECURSIVE MatchedInOrder(_, _, _, _)
MatchedInOrder(t, detections, order, consumed) ==
    IF order = <<>> THEN <<>>
    ELSE IF /\ MinDist(t, detections, Head(order)) <= Gate * Gate
            /\ Nearest(t, detections, Head(order)) \notin consumed
    THEN <<Head(order)>> \o
         MatchedInOrder(t, detections, Tail(order),
                        consumed \cup {Nearest(t, detections, Head(order))})
    ELSE MatchedInOrder(t, detections, Tail(order), consumed)

\* what C11 says of update(detections) taking tracker t to t2, where matched is
\* the sequence of tracks the rule above matches
MatchedAsVisited(t, detections, t2, matched) ==
    /\ TraceIds(t2.trace, "match") = matched
    /\ \A id \in Range(matched) :
           /\ id \in DOMAIN t2.objects
           /\ t2.objects[id].bbox = detections[Nearest(t, detections, id)].bbox
           /\ t2.objects[id].centroid = Centroid(detections[Nearest(t, detections, id)].bbox)
           /\ t2.disappeared[id] = 0
    /\ \A id \in DOMAIN t.objects \ Range(matched) :
           /\ Cardinality({ i \in DOMAIN t2.trace :
                               t2.trace[i] = [op |-> "age", id |-> id] }) = 1
           /\ id \in DOMAIN t2.objects => t2.disappeared[id] = t.disappeared[id] + 1
           /\ id \notin DOMAIN t2.objects => t.disappeared[id] + 1 > max_disappeared

\* C11: in every reachable tracker state with active tracks and for every
\* non-empty detection list, update visits the tracks in ascending order of their
\* minimum distance to a detection, matches a visited track to its nearest
\* detection exactly when that distance is at most 50 and no earlier track has
\* consumed that detection, and ages every other track by exactly one tick.
C11_MatchedInRowMinimumOrder ==
    DOMAIN objects # {} =>
        \A detections \in DetLists \ {<<>>} :
            MatchedAsVisited(TrackerState, detections,
                             TrackerUpdate(TrackerState, detections),
                             MatchedInOrder(TrackerState, detections,
                                            VisitOrder(TrackerState, detections,
                                                       DOMAIN objects), {}))

\* the scenario of the specification: tracks at (0,0) and (100,100) and nothing
\* else; update with one detection centred at (2,1) matches the first, which moves
\* to (2,1), and raises the counter of the second by one
C11_Witness ==
    \E a, b \in DOMAIN objects :
        LET t2 == TrackerUpdate(TrackerState, << [bbox |-> <<1, 0, 3, 2>>] >>)
        IN  /\ DOMAIN objects = {a, b}
            /\ objects[a].centroid = <<0, 0>>
            /\ objects[b].centroid = <<100, 100>>
            /\ disappeared[b] < max_disappeared
            /\ t2.trace = << [op |-> "match", id |-> a], [op |-> "age", id |-> b] >>
            /\ t2.objects[a].centroid = <<2, 1>>
            /\ t2.disappeared[a] = 0
            /\ t2.disappeared[b] = disappeared[b] + 1

\* the key order of self.objects and self.disappeared (python dicts keep insertion
\* order): the active ids in the order of their latest register call. It is what
\* update reads of a tracker beyond the values of its fields: object_ids, hence the
\* rows of D and the order among rows with equal minimum, come from it.
KeyOrder ==
    LET idx == Ascending({ i \in DOMAIN created :
                             /\ created[i].id \in DOMAIN objects
                             /\ \A j \in DOMAIN created :
                                    created[j].id = created[i].id => j <= i })
    IN  [k \in 1..Len(idx) |-> created[idx[k]].id]

\* update(detections) carried out with the rows taken in the given key order
UpdateInKeyOrder(t, ids, detections) ==
    IF Len(detections) = 0 THEN AgeAll(t, ids)
    ELSE IF ids = <<>>
    THEN RegisterAll(t, InputCentroids(detections), InputBboxes(detections),
                     Ascending(1..Len(detections)))
    ELSE AssociateIds(t, ids, InputCentroids(detections), InputBboxes(detections))

PerRowMatchesOf(D, mins, t, ids, input_centroids, input_bboxes) ==
    { <<r, ArgMins(D, mins)[r]>> :
        r \in MatchByRowMinimum(t, D, mins, ids, input_centroids, input_bboxes).used_rows }

PerRowMatchesIn(D, t, ids, detections) ==
    PerRowMatchesOf(D, RowMins(D), t, ids, InputCentroids(detections), InputBboxes(detections))

\* greedy matching over a set of <<row, col>> candidates: by ascending distance
\* (equal distances by row, then by column), a candidate is accepted when its row
\* and its column are both still free
RECURSIVE GreedyOver(_, _, _)
GreedyOver(D, candidates, accepted) ==
    IF candidates = {} THEN accepted
    ELSE LET x == CHOOSE a \in candidates : \A b \in candidates :
                      \/ D[a[1]][a[2]] < D[b[1]][b[2]]
                      \/ /\ D[a[1]][a[2]] = D[b[1]][b[2]]
                         /\ (a[1] < b[1] \/ (a[1] = b[1] /\ a[2] <= b[2]))
         IN  IF \E m \in accepted : m[1] = x[1] \/ m[2] = x[2]
             THEN GreedyOver(D, candidates \ {x}, accepted)
             ELSE GreedyOver(D, candidates \ {x}, accepted \cup {x})

\* all (row, col) candidates at most Gate px apart
AllCandidates(D) ==
    { x \in UNION { { <<r, c>> : c \in DOMAIN D[r] } : r \in DOMAIN D } :
        D[x[1]][x[2]] <= Gate * Gate }

\* one candidate per row: the row with the first of its nearest columns
NearestCandidates(D) ==
    { x \in AllCandidates(D) :
        \A c \in DOMAIN D[x[1]] :
            D[x[1]][x[2]] < D[x[1]][c] \/ (D[x[1]][x[2]] = D[x[1]][c] /\ x[2] <= c) }

\* no two tracks within Gate px of a detection have the same nearest detection
NearestAreDistinct(D) ==
    \A x, y \in NearestCandidates(D) : x[2] = y[2] => x = y

SameAsGlobalGreedy(D, t, ids, detections) ==
    PerRowMatchesIn(D, t, ids, detections) = GreedyOver(D, AllCandidates(D), {})

SameAsNearestGreedy(D, t, ids, detections) ==
    /\ PerRowMatchesIn(D, t, ids, detections) = GreedyOver(D, NearestCandidates(D), {})
    /\ NearestAreDistinct(D) => SameAsGlobalGreedy(D, t, ids, detections)

\* C15 (as the specification states it): for every reachable tracker state with
\* active tracks and every non-empty detection list, update makes the same matches
\* as the global greedy matching over all (row, col, distance) candidates.
C15_SameAsGlobalGreedy ==
    DOMAIN objects # {} =>
        \A detections \in DetLists \ {<<>>} :
            SameAsGlobalGreedy(DistMatrix(TrackerState, ObjectIds(TrackerState),
                                          InputCentroids(detections)),
                               TrackerState, ObjectIds(TrackerState), detections)

\* C15 (amended): update makes the same matches as the greedy matching over one
\* candidate per track, the track with its nearest detection; this is the global
\* greedy matching whenever no two tracks within 50 px of a detection have the same
\* nearest detection.
C15_SameAsGreedyOverNearest ==
    DOMAIN objects # {} =>
        \A detections \in DetLists \ {<<>>} :
            SameAsNearestGreedy(DistMatrix(TrackerState, ObjectIds(TrackerState),
                                           InputCentroids(detections)),
                                TrackerState, ObjectIds(TrackerState), detections)

\* two tracks have the same nearest detection and the farther of them is within
\* 50 px of the other detection of the list: update matches one track, the global
\* greedy matching two
C15_Witness ==
    \E detections \in DetLists \ {<<>>} :
        LET ids == ObjectIds(TrackerState)
            D == DistMatrix(TrackerState, ids, InputCentroids(detections))
        IN  /\ Len(ids) = 2
            /\ ~NearestAreDistinct(D)
            /\ Cardinality(PerRowMatchesIn(D, TrackerState, ids, detections)) = 1
            /\ Cardinality(GreedyOver(D, AllCandidates(D), {})) = 2
            /\ TrackerUpdate(TrackerState, detections).next_object_id <= MaxIds

\* the tracks update(detections) matches in tracker t
MatchedTracks(t, detections) ==
    IF Len(detections) = 0 \/ DOMAIN t.objects = {} THEN {}
    ELSE Range(MatchedInOrder(t, detections, VisitOrder(t, detections, DOMAIN t.objects), {}))

\* what C19 says of update(detections) taking tracker t to t2, where matched is
\* the set of tracks the call matches
OnlyMatchedMove(t, detections, t2, matched) ==
    \A id \in DOMAIN t.objects :
        /\ id \in matched =>
               /\ id \in DOMAIN t2.objects
               /\ t2.objects[id].bbox = detections[Nearest(t, detections, id)].bbox
               /\ t2.objects[id].centroid
                      = Centroid(detections[Nearest(t, detections, id)].bbox)
               /\ t2.disappeared[id] = 0
        /\ id \notin matched /\ id \in DOMAIN t2.objects =>
               /\ t2.objects[id].bbox = t.objects[id].bbox
               /\ t2.objects[id].centroid = t.objects[id].centroid
               /\ t2.disappeared[id] = t.disappeared[id] + 1
        /\ id \in DOMAIN t2.objects => t2.objects[id].face_id = t.objects[id].face_id

\* C19: in every reachable tracker state and for every detection list, update sets
\* the centroid and bounding box of a matched track to the matched detection's and
\* its counter to 0, leaves the centroid and bounding box of an unmatched track
\* that survives as they were and adds exactly 1 to its counter, and changes the
\* identity of no surviving track.
C19_OnlyMatchedTracksMove ==
    \A detections \in ApiDetLists :
        OnlyMatchedMove(TrackerState, detections, TrackerUpdate(TrackerState, detections),
                        MatchedTracks(TrackerState, detections))

\* an update that can be taken from here moves a track that has an identity to a
\* matched detection elsewhere, and ages another track with an identity, which
\* survives where it was
C19_Witness ==
    \E a \in DOMAIN objects, b \in DOMAIN objects :
        /\ objects[a].face_id # None
        /\ objects[b].face_id # None
        /\ \E detections \in ApiDetLists :
               \E t2 \in {TrackerUpdate(TrackerState, detections)} :
                   \E matched \in {MatchedTracks(TrackerState, detections)} :
                       /\ t2.next_object_id <= MaxIds
                       /\ a \in matched
                       /\ t2.objects[a].centroid # objects[a].centroid
                       /\ b \notin matched
                       /\ b \in DOMAIN t2.objects
                       /\ OnlyMatchedMove(TrackerState, detections, t2, matched)

\* C21: after every update call the ids that have a disappearance counter are
\* exactly the active track ids, and every active track's counter is between 0 and
\* max_disappeared inclusive.
C21_CountersMatchActiveTracks ==
    /\ DOMAIN disappeared = DOMAIN objects
    /\ \A id \in DOMAIN objects :
           disappeared[id] >= 0 /\ disappeared[id] <= max_disappeared

\* update calls have removed a track, left one at max_disappeared misses and just
\* created or matched another
C21_Witness ==
    /\ removed # {}
    /\ \E id \in DOMAIN objects : disappeared[id] = max_disappeared
    /\ \E id \in DOMAIN objects : disappeared[id] = 0

\* what C22 says of update(detections) taking tracker t to t2, where pairs is the
\* set of <<row, col>> matches the call makes: no row and no column is in two
\* pairs; the tracks with counter 0 after the call are the matched tracks and the
\* new ones, as many as there are detections, and each bounding box of the list is
\* the bounding box of as many of them as there are detections with that box;
\* with no track before the call the new tracks are one per detection, in order
OneTrackPerDetection(t, detections, t2, pairs) ==
    /\ \A x, y \in pairs : (x[1] = y[1] \/ x[2] = y[2]) => x = y
    /\ Cardinality(pairs) = Len(TraceIds(t2.trace, "match"))
    /\ { id \in DOMAIN t2.objects : t2.disappeared[id] = 0 }
           = Range(TraceIds(t2.trace, "match")) \cup Range(TraceIds(t2.trace, "register"))
    /\ Cardinality({ id \in DOMAIN t2.objects : t2.disappeared[id] = 0 }) = Len(detections)
    /\ \A c \in 1..Len(detections) :
           Cardinality({ id \in DOMAIN t2.objects :
                           /\ t2.disappeared[id] = 0
                           /\ t2.objects[id].bbox = detections[c].bbox
                           /\ t2.objects[id].centroid = Centroid(detections[c].bbox) })
               = Cardinality({ k \in 1..Len(detections) : detections[k].bbox = detections[c].bbox })
    /\ DOMAIN t.objects = {} =>
           /\ DOMAIN t2.objects = t.next_object_id..(t.next_object_id + Len(detections) - 1)
           /\ \A c \in 1..Len(detections) :
                  t2.objects[t.next_object_id + c - 1].bbox = detections[c].bbox

\* the matches of update(detections) in tracker t ({} when there is no track)
MatchesOf(t, detections) ==
    IF DOMAIN t.objects = {} THEN {}
    ELSE PerRowMatchesIn(DistMatrix(t, ObjectIds(t), InputCentroids(detections)),
                         t, ObjectIds(t), detections)

\* C22: in every reachable tracker state and for every non-empty detection list,
\* the matching of update is one-to-one and every detection of the list ends up
\* as the bounding box of exactly one track that is active with counter 0 after
\* the call, the matched track or a new one; with no track before the call, k
\* detections create exactly k tracks.
C22_EveryDetectionGetsOneTrack ==
    \A detections \in DetLists \ {<<>>} :
        OneTrackPerDetection(TrackerState, detections,
                             TrackerUpdate(TrackerState, detections),
                             MatchesOf(TrackerState, detections))

\* an update that can be taken from here has two detections with the same box,
\* one of which is matched to a track while the other becomes a new track
C22_Witness ==
    \E detections \in DetLists :
        \E t2 \in {TrackerUpdate(TrackerState, detections)} :
            /\ Len(detections) = 2
            /\ detections[1] = detections[2]
            /\ t2.next_object_id <= MaxIds
            /\ Len(TraceIds(t2.trace, "match")) = 1
            /\ Len(TraceIds(t2.trace, "register")) = 1
            /\ OneTrackPerDetection(TrackerState, detections, t2,
                                    MatchesOf(TrackerState, detections))

---------------------------------------------------------------------------
(* Properties of process_frame *)

\* C2: over any run, log_event is called at most once per identity for an entry
\* and at most once for an exit (so at most one of each is stored), and an
\* identity whose event was emitted is marked in tracked_entries / tracked_exits;
\* this includes an identity resolved again on a new track after its track was
\* removed.
C2_AtMostOneEventPerIdentity ==
    /\ \A key \in DOMAIN log_calls : log_calls[key] <= 1
    /\ \A key \in DOMAIN db_events : db_events[key] <= 1
    /\ \A key \in DOMAIN log_calls :
           /\ key[2] = "entry" => key[1] \in tracked_entries
           /\ key[2] = "exit" => key[1] \in tracked_exits

\* an identity was assigned to a track that has been removed and, on a track created
\* after that removal, assigned again; its entry has been logged once
C2_Witness ==
    \E a \in assigned, b \in assigned :
        /\ a[2] = b[2]
        /\ a[1] \in removed
        /\ b[1] \in DOMAIN objects
        /\ \E i \in DOMAIN created : created[i].id = b[1] /\ a[1] \in created[i].after
        /\ Count(log_calls, <<a[2], "entry">>) = 1

\* C3 (as the specification states it): after every frame, an identity whose entry
\* was emitted and which no active track carries any more has had exactly one
\* exit event logged and is in the exited set.
C3_ExitLoggedOnceWhenAbsent ==
    \A face_id \in tracked_entries :
        face_id \notin CurrentFaceIds(TrackerState) =>
            /\ face_id \in tracked_exits
            /\ Count(log_calls, <<face_id, "exit">>) = 1

\* C4: tracked_exits is a subset of tracked_entries in every reachable state, and
\* no step of process_frame removes an element from either set.
C4_ExitsSubsetEntriesMonotone ==
    /\ [](tracked_exits \subseteq tracked_entries)
    /\ [][/\ tracked_entries \subseteq tracked_entries'
          /\ tracked_exits \subseteq tracked_exits']_vars

\* two identities have entered, the second one in a later frame than the first
C4_Witness ==
    /\ Cardinality(tracked_entries) >= 2
    /\ \E a \in assigned, b \in assigned :
           /\ a[2] # b[2]
           /\ \E i \in DOMAIN created : created[i].id = b[1] /\ a[1] \in created[i].after

\* C5 (as the specification states it): an identity is in tracked_entries only if
\* a log_event call for its entry succeeded.
C5_EnteredOnlyAfterSuccessfulLog ==
    \A face_id \in tracked_entries : Count(db_events, <<face_id, "entry">>) >= 1

\* C14 (as the specification states it): every identity in known_embeddings was
\* loaded from the database at startup or stored in it by a register_face call that
\* succeeded; a failed registration leaves the cache as it was.
C14_CachedOnlyAfterRegistration ==
    \A i \in DOMAIN known_embeddings : known_embeddings[i].face_id \in db_faces

\* what a frame that passes the empty list to the tracker does: no track is
\* created, every active track's counter grows by one, a track whose counter then
\* exceeds max_disappeared is removed and the others are otherwise as they were,
\* and no identity is resolved
AgesEveryTrack ==
    /\ ~detected'
    /\ next_object_id' = next_object_id
    /\ DOMAIN objects' \subseteq DOMAIN objects
    /\ \A id \in DOMAIN objects :
           IF disappeared[id] + 1 > max_disappeared
           THEN id \notin DOMAIN objects'
           ELSE /\ id \in DOMAIN objects'
                /\ disappeared'[id] = disappeared[id] + 1
                /\ objects'[id] = objects[id]
    /\ attempted' = {}
    /\ assigned' = assigned
    /\ known_embeddings' = known_embeddings
    /\ next_face_id' = next_face_id

\* C16: process_frame calls detect_faces exactly on the frames whose 1-based count
\* is a multiple of skip_frames + 1; on every other frame the tracker gets the
\* empty list, so every active track's counter grows by one (tracks exceeding
\* max_disappeared are removed) and no identity resolution is attempted.
C16_DetectionEverySkipPlusOne ==
    [][frame_count' = frame_count + 1 =>
          /\ detector_called' <=> (frame_count' % (skip_frames + 1) = 0)
          /\ ~detector_called' => AgesEveryTrack]_vars

\* a frame without detection has just removed one track and aged another, which
\* is still active
C16_Witness ==
    /\ frame_count > 0
    /\ frame_count % (skip_frames + 1) # 0
    /\ ~detector_called
    /\ \E id \in removed : missed[id] = max_disappeared + 1
    /\ \E id \in DOMAIN objects : disappeared[id] >= 1

\* where a frame leaves the tracks whose get_embedding call returned None:
\* active and without identity
UnresolvedStayIdentityLess ==
    \A id \in no_embedding : id \in DOMAIN objects /\ objects[id].face_id = None

\* process_frame creates and removes exactly the tracks its one update call does
OnlyUpdateCreatesTracks ==
    \E detections \in FewDetLists :
        \E t1 \in {TrackerUpdate(TrackerState, detections)} :
            /\ DOMAIN objects' = DOMAIN t1.objects
            /\ next_object_id' = t1.next_object_id

\* C6 (as the specification states it): a track whose get_embedding call returned
\* None in frame K is still identity-less after it, no extra track was made, and
\* get_embedding is called for it again in frame K+1.
C6_RetriedOnNextFrame ==
    /\ []UnresolvedStayIdentityLess
    /\ [][OnlyUpdateCreatesTracks]_vars
    /\ [][\A id \in no_embedding \cap attempted : id \in attempted']_vars

\* C6 (amended): ... and get_embedding is called for it again in the first later
\* frame whose detection list is not empty, if the track is still active after that
\* frame's tracker update.
C6_RetriedOnNextDetection ==
    /\ []UnresolvedStayIdentityLess
    /\ [][OnlyUpdateCreatesTracks]_vars
    /\ [][\A id \in no_embedding : (detected' /\ id \in DOMAIN objects') => id \in attempted']_vars

\* a track whose earlier get_embedding call returned None has been tried again
C6_Witness == retried # {}

\* C17: in every frame, get_embedding is called only for tracks that have no
\* identity when the frame's loop reaches them (new tracks and tracks that had none
\* before the frame), and a track that has an identity keeps exactly that identity
\* for as long as it is active.
C17_IdentityResolvedOnceAndKept ==
    [][/\ \A id \in attempted' :
              id \in DOMAIN objects => objects[id].face_id = None
       /\ \A id \in DOMAIN objects \cap DOMAIN objects' :
              objects[id].face_id # None => objects'[id].face_id = objects[id].face_id]_vars

\* in a frame with detections a track resolved in an earlier frame has been matched
\* again and was not passed to the resolver, while another track was
C17_Witness ==
    /\ detected
    /\ \E id \in DOMAIN objects :
           /\ objects[id].face_id # None
           /\ disappeared[id] = 0
           /\ id \notin attempted
    /\ \E id \in attempted : id \in DOMAIN objects /\ objects[id].face_id # None

\* the labels in the known-identity cache
KnownLabels == { known_embeddings[i].face_id : i \in DOMAIN known_embeddings }

\* C18 (as the specification states it): every label a frame mints differs from
\* every label in the known-identity cache before the frame (the labels loaded at
\* startup and the labels minted earlier, which are all put in the cache) and from
\* the other labels minted in the same frame.
C18_MintedLabelIsNew ==
    [][\A n \in next_face_id..(next_face_id' - 1) :
           /\ FaceLabel(n) \notin KnownLabels
           /\ \A m \in next_face_id..(next_face_id' - 1) :
                  FaceLabel(m) = FaceLabel(n) => m = n]_vars

\* C23: after every process_frame call, every identity carried by an active track
\* is in tracked_entries and log_event has been called for its entry.
C23_CarriedIdentityHasEntered ==
    \A id \in DOMAIN objects :
        objects[id].face_id # None =>
            /\ objects[id].face_id \in tracked_entries
            /\ Count(log_calls, <<objects[id].face_id, "entry">>) >= 1

\* two active tracks carry identities, one matched against a face known at startup
\* and one minted in this run
C23_Witness ==
    \E a \in DOMAIN objects, b \in DOMAIN objects :
        /\ objects[a].face_id # None
        /\ objects[b].face_id # None
        /\ objects[a].face_id # objects[b].face_id
        /\ objects[a].face_id \in db_faces
        /\ next_face_id > Len(known_embeddings)
        /\ {objects[a].face_id, objects[b].face_id} \subseteq tracked_entries

\* the frames without detection since the most recent detection frame
SkippedSinceDetection == frame_count % (skip_frames + 1)

\* the tracks that were matched or created on the most recent detection frame:
\* their counter is the number of skipped frames since
MatchedOnLastDetection ==
    { id \in DOMAIN objects : disappeared[id] = SkippedSinceDetection }

\* C24: with max_disappeared >= skip_frames, a track that was matched on the most
\* recent detection frame is not removed by a skipped frame, which leaves its id
\* and identity as they are and raises its counter by one, to at most skip_frames;
\* and if the next detection frame matches it again, its counter is back at 0 and
\* its identity, if it had one, is the same.
C24_SkippedFramesKeepMatchedTracks ==
    [][(max_disappeared >= skip_frames /\ frame_count' = frame_count + 1) =>
          \A id \in MatchedOnLastDetection :
              /\ ~detector_called' =>
                     /\ id \in DOMAIN objects'
                     /\ objects'[id] = objects[id]
                     /\ disappeared'[id] = disappeared[id] + 1
                     /\ disappeared'[id] <= skip_frames
              /\ (detector_called' /\ id \in DOMAIN missed' /\ missed'[id] = 0) =>
                     /\ disappeared[id] = skip_frames
                     /\ id \in DOMAIN objects'
                     /\ disappeared'[id] = 0
                     /\ objects[id].face_id # None =>
                            objects'[id].face_id = objects[id].face_id]_vars

\* on the second detection frame or a later one, a track that got its identity on
\* an earlier detection frame has come through the skipped frames and is matched
\* again
C24_Witness ==
    /\ frame_count >= 2 * (skip_frames + 1)
    /\ SkippedSinceDetection = 0
    /\ detector_called
    /\ \E id \in DOMAIN objects :
           /\ objects[id].face_id # None
           /\ disappeared[id] = 0
           /\ id \notin attempted
           /\ id \in DOMAIN missed
           /\ missed[id] = 0

---------------------------------------------------------------------------
(* Properties of find_match *)

\* the similarities of the embedding to the known ones, in dict order
SimilaritiesTo(embedding, known) ==
    [i \in DOMAIN known |-> Similarity(embedding, known[i].embedding)]

\* the entry find_match has to return: the first of those with the highest
\* similarity among the entries strictly above the threshold (0 if there is none)
BestAbove(sims) ==
    LET above == { i \in DOMAIN sims : AboveThreshold(sims[i]) }
        best == { i \in above : \A j \in above : ~SimGreater(sims[j], sims[i]) }
    IN  IF above = {} THEN 0 ELSE MinOf(best)

\* C20 (as the specification states it): for every threshold and every dict of
\* known embeddings, find_match returns the identity with the highest similarity
\* among those strictly above the threshold, the first such in dict order, and no
\* identity when none is above the threshold.
C20_BestAboveThresholdWins ==
    fm_result # <<>> =>
        \E best \in {BestAbove(SimilaritiesTo(fm_embedding, fm_known))} :
            fm_result[1].face_id = IF best = 0 THEN None ELSE fm_known[best].face_id

====
